---- MODULE Spec2Model ----
(***************************************************************************)
(* ICS-024 store paths of ibc-rs (ibc-core/ics24-host/types/src/path.rs):  *)
(* the Path enum, its Display rendering (to_string), its FromStr parser    *)
(* (from_str) with the ten recognizers, is_provable and the derived Ord.   *)
(*                                                                         *)
(* Strings are TLA+ strings; a character is a string of length 1.          *)
(* A u64 is kept as three base-10^7 limbs <<hi, mid, lo>> (most            *)
(* significant first) so that values up to 2^64 - 1 and the overflow of    *)
(* the decimal parser are represented exactly.                             *)
(***************************************************************************)
EXTENDS Integers, Sequences, FiniteSets, TLC

VARIABLES calls, callers

vars == <<calls, callers>>

(***************************************************************************)
(* Bounds of the explored inputs.                                          *)
(***************************************************************************)
\* how many identifiers of each leaf type are drawn from its pool
NumIds == 2
\* how many u64 values are drawn from the pool of heights and sequences
NumHeights == 4
\* how many ill-formed height segments are drawn from their pool
NumBadHeights == 8

(***************************************************************************)
(* Characters and strings.                                                 *)
(***************************************************************************)
Min(a, b) == IF a < b THEN a ELSE b

CharAt(s, i) == SubSeq(s, i, i)

Digits == "0123456789"

IsDigit(c) == \E i \in 1..10 : CharAt(Digits, i) = c

DigitVal(c) == (CHOOSE i \in 1..10 : CharAt(Digits, i) = c) - 1

DigitChar(d) == CharAt(Digits, d + 1)

\* the characters that occur in the explored strings, in increasing byte order
AsciiOrder == " !#+-./0123456789<>ABCDEFGHIJKLMNOPQRSTUVWXYZ[]_abcdefghijklmnopqrstuvwxyz"

CharCode(c) == CHOOSE i \in 1..Len(AsciiOrder) : CharAt(AsciiOrder, i) = c

\* Ord for str: lexicographic comparison of the bytes
RECURSIVE StrCmpFrom(_, _, _)
StrCmpFrom(a, b, i) ==
    IF i > Len(a) /\ i > Len(b) THEN "Equal"
    ELSE IF i > Len(a) THEN "Less"
    ELSE IF i > Len(b) THEN "Greater"
    ELSE IF CharCode(CharAt(a, i)) < CharCode(CharAt(b, i)) THEN "Less"
    ELSE IF CharCode(CharAt(a, i)) > CharCode(CharAt(b, i)) THEN "Greater"
    ELSE StrCmpFrom(a, b, i + 1)

StrCmp(a, b) == StrCmpFrom(a, b, 1)

\* index of the first occurrence of character c in s at or after i, 0 if none
RECURSIVE FindFrom(_, _, _)
FindFrom(s, c, i) ==
    IF i > Len(s) THEN 0
    ELSE IF CharAt(s, i) = c THEN i
    ELSE FindFrom(s, c, i + 1)

\* str::split(char): the pieces between the separators, empty pieces kept
RECURSIVE Split(_, _)
Split(s, sep) ==
    LET i == FindFrom(s, sep, 1)
    IN  IF i = 0 THEN <<s>>
        ELSE <<SubSeq(s, 1, i - 1)>> \o Split(SubSeq(s, i + 1, Len(s)), sep)

RECURSIVE Join(_, _)
Join(segs, sep) ==
    IF Len(segs) = 0 THEN ""
    ELSE IF Len(segs) = 1 THEN segs[1]
    ELSE segs[1] \o sep \o Join(Tail(segs), sep)

(***************************************************************************)
(* u64: parse::<u64>() and Display.                                        *)
(***************************************************************************)
LimbBase == 10 ^ 7

U64Max == <<184467, 4407370, 9551615>>

U64Zero == <<0, 0, 0>>

U64Leq(a, b) ==
    \/ a[1] < b[1]
    \/ a[1] = b[1] /\ a[2] < b[2]
    \/ a[1] = b[1] /\ a[2] = b[2] /\ a[3] <= b[3]

\* Ord for u64
U64Cmp(a, b) ==
    IF a = b THEN "Equal" ELSE IF U64Leq(a, b) THEN "Less" ELSE "Greater"

\* a * 10 + d on the limbs; the high limb is left unreduced
MulAdd10(a, d) ==
    LET lo  == a[3] * 10 + d
        mid == a[2] * 10 + (lo \div LimbBase)
        hi  == a[1] * 10 + (mid \div LimbBase)
    IN  <<hi, mid % LimbBase, lo % LimbBase>>

ParseErr == [ok |-> FALSE]

\* the digit loop with saturating in place of checked arithmetic
RECURSIVE ParseDigits_saturating(_, _, _)
ParseDigits_saturating(s, i, acc) ==
    IF i > Len(s) THEN [ok |-> TRUE, val |-> acc]
    ELSE IF ~IsDigit(CharAt(s, i)) THEN ParseErr
    ELSE LET next == MulAdd10(acc, DigitVal(CharAt(s, i)))
         IN  IF U64Leq(next, U64Max) THEN ParseDigits_saturating(s, i + 1, next)
             ELSE ParseDigits_saturating(s, i + 1, U64Max)

\* the digit loop of from_str_radix: checked_mul(10) then checked_add(digit)
RECURSIVE ParseDigits(_, _, _)
ParseDigits(s, i, acc) ==
    IF i > Len(s) THEN [ok |-> TRUE, val |-> acc]
    ELSE IF ~IsDigit(CharAt(s, i)) THEN ParseErr
    ELSE LET next == MulAdd10(acc, DigitVal(CharAt(s, i)))
         IN  IF U64Leq(next, U64Max) THEN ParseDigits(s, i + 1, next)
             ELSE ParseErr

\* str::parse::<u64>(): empty and a lone sign are errors, one leading '+' is
\* skipped, '-' is no sign of an unsigned type, every other byte is a digit
ParseU64(s) ==
    IF Len(s) = 0 THEN ParseErr
    ELSE IF Len(s) = 1 /\ s \in {"+", "-"} THEN ParseErr
    ELSE IF CharAt(s, 1) = "+" THEN ParseDigits(s, 2, U64Zero)
    ELSE ParseDigits(s, 1, U64Zero)

RECURSIVE Dec(_)
Dec(n) == IF n < 10 THEN DigitChar(n) ELSE Dec(n \div 10) \o DigitChar(n % 10)

RECURSIVE PadTo(_, _)
PadTo(s, w) == IF Len(s) >= w THEN s ELSE PadTo("0" \o s, w)

\* Display for u64: the decimal digits, no sign, no leading zero
FormatU64(v) ==
    IF v[1] > 0 THEN Dec(v[1]) \o PadTo(Dec(v[2]), 7) \o PadTo(Dec(v[3]), 7)
    ELSE IF v[2] > 0 THEN Dec(v[2]) \o PadTo(Dec(v[3]), 7)
    ELSE Dec(v[3])

(***************************************************************************)
(* Leaf identifiers (crate::identifiers).  An identifier type wraps the    *)
(* string it was parsed from; Sequence wraps a u64.                        *)
(***************************************************************************)
IdentifierChars == "#+-.0123456789<>ABCDEFGHIJKLMNOPQRSTUVWXYZ[]_abcdefghijklmnopqrstuvwxyz"

IsIdentifierChar(c) == \E i \in 1..Len(IdentifierChars) : CharAt(IdentifierChars, i) = c

\* a non-empty string of identifier characters; '/' is not one of them
ValidIdentifier(s) ==
    /\ Len(s) > 0
    /\ \A i \in 1..Len(s) : IsIdentifierChar(CharAt(s, i))

IdentifierFromStr(s) == IF ValidIdentifier(s) THEN [ok |-> TRUE, val |-> s] ELSE ParseErr

ClientIdFromStr(s) == IdentifierFromStr(s)

ConnectionIdFromStr(s) == IdentifierFromStr(s)

PortIdFromStr(s) == IdentifierFromStr(s)

ChannelIdFromStr(s) == IdentifierFromStr(s)

SequenceFromStr(s) == ParseU64(s)

\* Display of the identifier types: the wrapped string
IdentifierToString(id) == id

SequenceToString(seq) == FormatU64(seq)

(***************************************************************************)
(* The Path enum and its payload structs.                                  *)
(***************************************************************************)
UPGRADED_IBC_STATE == "upgradedIBCState"

UPGRADED_CLIENT_STATE == "upgradedClient"

UPGRADED_CLIENT_CONSENSUS_STATE == "upgradedConsState"

\* the variants of Path in declaration order
PathVariants ==
    << "NextClientSequence", "NextConnectionSequence", "NextChannelSequence",
       "ClientState", "ClientConsensusState", "ClientUpdateTime",
       "ClientUpdateHeight", "ClientConnection", "Connection", "Ports",
       "ChannelEnd", "SeqSend", "SeqRecv", "SeqAck", "Commitment", "Ack",
       "Receipt", "UpgradeClient" >>

\* the variants of UpgradeClientPath in declaration order
UpgradeVariants == << "UpgradedClientState", "UpgradedClientConsensusState" >>

NextClientSequencePath == [tag |-> "NextClientSequence"]

NextConnectionSequencePath == [tag |-> "NextConnectionSequence"]

NextChannelSequencePath == [tag |-> "NextChannelSequence"]

ClientStatePath(client_id) == [tag |-> "ClientState", client_id |-> client_id]

ClientConsensusStatePath(client_id, revision_number, revision_height) ==
    [tag |-> "ClientConsensusState", client_id |-> client_id,
     revision_number |-> revision_number, revision_height |-> revision_height]

ClientUpdateTimePath(client_id, revision_number, revision_height) ==
    [tag |-> "ClientUpdateTime", client_id |-> client_id,
     revision_number |-> revision_number, revision_height |-> revision_height]

ClientUpdateHeightPath(client_id, revision_number, revision_height) ==
    [tag |-> "ClientUpdateHeight", client_id |-> client_id,
     revision_number |-> revision_number, revision_height |-> revision_height]

ClientConnectionPath(client_id) == [tag |-> "ClientConnection", client_id |-> client_id]

ConnectionPath(connection_id) == [tag |-> "Connection", connection_id |-> connection_id]

PortPath(port_id) == [tag |-> "Ports", port_id |-> port_id]

ChannelEndPath(port_id, channel_id) ==
    [tag |-> "ChannelEnd", port_id |-> port_id, channel_id |-> channel_id]

SeqSendPath(port_id, channel_id) ==
    [tag |-> "SeqSend", port_id |-> port_id, channel_id |-> channel_id]

SeqRecvPath(port_id, channel_id) ==
    [tag |-> "SeqRecv", port_id |-> port_id, channel_id |-> channel_id]

SeqAckPath(port_id, channel_id) ==
    [tag |-> "SeqAck", port_id |-> port_id, channel_id |-> channel_id]

CommitmentPath(port_id, channel_id, sequence) ==
    [tag |-> "Commitment", port_id |-> port_id, channel_id |-> channel_id,
     sequence |-> sequence]

AckPath(port_id, channel_id, sequence) ==
    [tag |-> "Ack", port_id |-> port_id, channel_id |-> channel_id,
     sequence |-> sequence]

ReceiptPath(port_id, channel_id, sequence) ==
    [tag |-> "Receipt", port_id |-> port_id, channel_id |-> channel_id,
     sequence |-> sequence]

UpgradeClientPath(variant, height) ==
    [tag |-> "UpgradeClient", variant |-> variant, height |-> height]

\* SubPath: not a Path, only a parsing intermediate
SubPathChannels(channel_id) == [tag |-> "Channels", channel_id |-> channel_id]

SubPathSequences(sequence) == [tag |-> "Sequences", sequence |-> sequence]

(***************************************************************************)
(* Display: the #[display(fmt = ...)] template of each struct.             *)
(***************************************************************************)
\* the height rendered height first
HeightToString_swapped(p) ==
    FormatU64(p.revision_height) \o "-" \o FormatU64(p.revision_number)

HeightToString(p) == FormatU64(p.revision_number) \o "-" \o FormatU64(p.revision_height)

ConsensusPrefix(p) ==
    "clients/" \o IdentifierToString(p.client_id) \o "/consensusStates/" \o HeightToString(p)

\* the channel id left out of the rendering
PortChannelSuffix_noChannel(p) ==
    "/ports/" \o IdentifierToString(p.port_id) \o "/channels/"

PortChannelSuffix(p) ==
    "/ports/" \o IdentifierToString(p.port_id)
        \o "/channels/" \o IdentifierToString(p.channel_id)

PacketSuffix(p) ==
    PortChannelSuffix(p) \o "/sequences/" \o SequenceToString(p.sequence)

\* both variants rendered with the literal of the first
UpgradeToString_sameLiteral(p) ==
    UPGRADED_IBC_STATE \o "/" \o FormatU64(p.height) \o "/" \o UPGRADED_CLIENT_STATE

UpgradeToString(p) ==
    IF p.variant = "UpgradedClientState"
    THEN UPGRADED_IBC_STATE \o "/" \o FormatU64(p.height) \o "/" \o UPGRADED_CLIENT_STATE
    ELSE UPGRADED_IBC_STATE \o "/" \o FormatU64(p.height) \o "/"
             \o UPGRADED_CLIENT_CONSENSUS_STATE

to_string(p) ==
    CASE p.tag = "NextClientSequence" -> "nextClientSequence"
      [] p.tag = "NextConnectionSequence" -> "nextConnectionSequence"
      [] p.tag = "NextChannelSequence" -> "nextChannelSequence"
      [] p.tag = "ClientState" ->
            "clients/" \o IdentifierToString(p.client_id) \o "/clientState"
      [] p.tag = "ClientConsensusState" -> ConsensusPrefix(p)
      [] p.tag = "ClientUpdateTime" -> ConsensusPrefix(p) \o "/processedTime"
      [] p.tag = "ClientUpdateHeight" -> ConsensusPrefix(p) \o "/processedHeight"
      [] p.tag = "ClientConnection" ->
            "clients/" \o IdentifierToString(p.client_id) \o "/connections"
      [] p.tag = "Connection" -> "connections/" \o IdentifierToString(p.connection_id)
      [] p.tag = "Ports" -> "ports/" \o IdentifierToString(p.port_id)
      [] p.tag = "ChannelEnd" -> "channelEnds" \o PortChannelSuffix(p)
      [] p.tag = "SeqSend" -> "nextSequenceSend" \o PortChannelSuffix(p)
      [] p.tag = "SeqRecv" -> "nextSequenceRecv" \o PortChannelSuffix(p)
      [] p.tag = "SeqAck" -> "nextSequenceAck" \o PortChannelSuffix(p)
      [] p.tag = "Commitment" -> "commitments" \o PacketSuffix(p)
      [] p.tag = "Ack" -> "acks" \o PacketSuffix(p)
      [] p.tag = "Receipt" -> "receipts" \o PacketSuffix(p)
      [] p.tag = "UpgradeClient" -> UpgradeToString(p)

\* only Ports taken as not provable
is_provable_portsOnly(p) == ~(p.tag \in {"Ports"})

\* Path::is_provable
is_provable(p) == ~(p.tag \in {"ClientConnection", "Ports"})

(***************************************************************************)
(* FromStr: the recognizers.  A recognizer returns None, Some(path), or   *)
(* aborts (Rust panics on an index past the end of the slice).             *)
(***************************************************************************)
None == [kind |-> "None"]

Some(x) == [kind |-> "Some", val |-> x]

Panic == [kind |-> "Panic"]

Ok(x) == [kind |-> "Ok", val |-> x]

\* PathError::ParseFailure { path }
ParseFailure(path) == [kind |-> "Err", error |-> "ParseFailure", path |-> path]

parse_next_sequence(components) ==
    IF Len(components) # 1 THEN None
    ELSE CASE components[1] = "nextClientSequence" -> Some(NextClientSequencePath)
           [] components[1] = "nextConnectionSequence" -> Some(NextConnectionSequencePath)
           [] components[1] = "nextChannelSequence" -> Some(NextChannelSequencePath)
           [] OTHER -> None

\* the height split on '-' with the components after the second ignored
parse_epoch_height_loose(components, client_id) ==
    LET epoch_height == Split(components[4], "-")
    IN  IF Len(epoch_height) < 2 THEN None
        ELSE LET revision_number == ParseU64(epoch_height[1])
                 revision_height == ParseU64(epoch_height[2])
             IN  IF ~revision_number.ok THEN None
                 ELSE IF ~revision_height.ok THEN None
                 ELSE IF Len(components) = 4
                      THEN Some(ClientConsensusStatePath(client_id,
                                    revision_number.val, revision_height.val))
                 ELSE CASE components[5] = "processedTime" ->
                               Some(ClientUpdateTimePath(client_id,
                                        revision_number.val, revision_height.val))
                        [] components[5] = "processedHeight" ->
                               Some(ClientUpdateHeightPath(client_id,
                                        revision_number.val, revision_height.val))
                        [] OTHER -> None

\* components[3] split on '-', of a clients path with 4 or 5 components
parse_epoch_height(components, client_id) ==
    LET epoch_height == Split(components[4], "-")
    IN  IF Len(epoch_height) # 2 THEN None
        ELSE LET revision_number == ParseU64(epoch_height[1])
                 revision_height == ParseU64(epoch_height[2])
             IN  IF ~revision_number.ok THEN None
                 ELSE IF ~revision_height.ok THEN None
                 ELSE IF Len(components) = 4
                      THEN Some(ClientConsensusStatePath(client_id,
                                    revision_number.val, revision_height.val))
                 ELSE CASE components[5] = "processedTime" ->
                               Some(ClientUpdateTimePath(client_id,
                                        revision_number.val, revision_height.val))
                        [] components[5] = "processedHeight" ->
                               Some(ClientUpdateHeightPath(client_id,
                                        revision_number.val, revision_height.val))
                        [] OTHER -> None

parse_client_paths(components) ==
    IF Len(components) = 0 THEN None
    ELSE IF components[1] # "clients" THEN None
    \* components[1] of the source, read before any length check
    ELSE IF Len(components) < 2 THEN Panic
    ELSE LET client_id == ClientIdFromStr(components[2])
         IN  IF ~client_id.ok THEN None
             ELSE IF Len(components) = 3
                  THEN CASE components[3] = "clientState" ->
                                Some(ClientStatePath(client_id.val))
                         [] components[3] = "connections" ->
                                Some(ClientConnectionPath(client_id.val))
                         [] OTHER -> None
             ELSE IF Len(components) = 4 \/ Len(components) = 5
                  THEN IF components[3] # "consensusStates" THEN None
                       ELSE parse_epoch_height(components, client_id.val)
             ELSE None

\* the arity checked as "at least two"
parse_connections_prefix(components) ==
    IF Len(components) < 2 THEN None
    ELSE IF components[1] # "connections" THEN None
    ELSE LET connection_id == ConnectionIdFromStr(components[Len(components)])
         IN  IF ~connection_id.ok THEN None
             ELSE Some(ConnectionPath(connection_id.val))

parse_connections(components) ==
    IF Len(components) # 2 THEN None
    ELSE IF components[1] # "connections" THEN None
    ELSE LET connection_id == ConnectionIdFromStr(components[Len(components)])
         IN  IF ~connection_id.ok THEN None
             ELSE Some(ConnectionPath(connection_id.val))

\* the "ports" literal not checked
parse_ports_anyLiteral(components) ==
    IF Len(components) # 2 THEN None
    ELSE LET port_id == PortIdFromStr(components[Len(components)])
         IN  IF ~port_id.ok THEN None
             ELSE Some(PortPath(port_id.val))

parse_ports(components) ==
    IF Len(components) # 2 THEN None
    ELSE IF components[1] # "ports" THEN None
    ELSE LET port_id == PortIdFromStr(components[Len(components)])
         IN  IF ~port_id.ok THEN None
             ELSE Some(PortPath(port_id.val))

\* the "channels" literal not checked
parse_channels_anyLiteral(components) ==
    IF Len(components) # 2 THEN None
    ELSE LET channel_id == ChannelIdFromStr(components[Len(components)])
         IN  IF ~channel_id.ok THEN None
             ELSE Some(SubPathChannels(channel_id.val))

parse_channels(components) ==
    IF Len(components) # 2 THEN None
    ELSE IF components[1] # "channels" THEN None
    ELSE LET channel_id == ChannelIdFromStr(components[Len(components)])
         IN  IF ~channel_id.ok THEN None
             ELSE Some(SubPathChannels(channel_id.val))

parse_sequences(components) ==
    IF Len(components) # 2 THEN None
    ELSE IF components[1] # "sequences" THEN None
    ELSE LET seq == SequenceFromStr(components[Len(components)])
         IN  IF seq.ok THEN Some(SubPathSequences(seq.val)) ELSE None

\* if let Some(Path::Ports(PortPath(port_id))) = port
IsPort(port) == port.kind = "Some" /\ port.val.tag = "Ports"

\* if let Some(SubPath::Channels(channel_id)) = channel
IsChannel(channel) == channel.kind = "Some" /\ channel.val.tag = "Channels"

\* if let Some(SubPath::Sequences(seq)) = sequence
IsSequence(sequence) == sequence.kind = "Some" /\ sequence.val.tag = "Sequences"

\* the "channelEnds" literal not checked
parse_channel_ends_anyLiteral(components) ==
    IF Len(components) # 5 THEN None
    ELSE LET port == parse_ports(SubSeq(components, 2, 3))
             channel == parse_channels(SubSeq(components, 4, 5))
         IN  IF ~IsPort(port) THEN None
             ELSE IF ~IsChannel(channel) THEN None
             ELSE Some(ChannelEndPath(port.val.port_id, channel.val.channel_id))

parse_channel_ends(components) ==
    IF Len(components) # 5 THEN None
    ELSE IF components[1] # "channelEnds" THEN None
    ELSE LET port == parse_ports(SubSeq(components, 2, 3))
             channel == parse_channels(SubSeq(components, 4, 5))
         IN  IF ~IsPort(port) THEN None
             ELSE IF ~IsChannel(channel) THEN None
             ELSE Some(ChannelEndPath(port.val.port_id, channel.val.channel_id))

\* every other first component taken for nextSequenceSend
parse_seqs_default(components) ==
    IF Len(components) # 5 THEN None
    ELSE LET first == components[1]
             port == parse_ports(SubSeq(components, 2, 3))
             channel == parse_channels(SubSeq(components, 4, 5))
         IN  IF ~IsPort(port) THEN None
             ELSE IF ~IsChannel(channel) THEN None
             ELSE CASE first = "nextSequenceRecv" ->
                           Some(SeqRecvPath(port.val.port_id, channel.val.channel_id))
                    [] first = "nextSequenceAck" ->
                           Some(SeqAckPath(port.val.port_id, channel.val.channel_id))
                    [] OTHER ->
                           Some(SeqSendPath(port.val.port_id, channel.val.channel_id))

parse_seqs(components) ==
    IF Len(components) # 5 THEN None
    ELSE LET first == components[1]
             port == parse_ports(SubSeq(components, 2, 3))
             channel == parse_channels(SubSeq(components, 4, 5))
         IN  IF ~IsPort(port) THEN None
             ELSE IF ~IsChannel(channel) THEN None
             ELSE CASE first = "nextSequenceSend" ->
                           Some(SeqSendPath(port.val.port_id, channel.val.channel_id))
                    [] first = "nextSequenceRecv" ->
                           Some(SeqRecvPath(port.val.port_id, channel.val.channel_id))
                    [] first = "nextSequenceAck" ->
                           Some(SeqAckPath(port.val.port_id, channel.val.channel_id))
                    [] OTHER -> None

\* the body shared by parse_commitments, parse_acks and parse_receipts, which
\* differ in the literal of the first component and in the struct they build
parse_packet(components, literal, tag) ==
    IF Len(components) # 7 THEN None
    ELSE IF components[1] # literal THEN None
    ELSE LET port == parse_ports(SubSeq(components, 2, 3))
             channel == parse_channels(SubSeq(components, 4, 5))
             sequence == parse_sequences(SubSeq(components, 6, Len(components)))
         IN  IF ~IsPort(port) THEN None
             ELSE IF ~IsChannel(channel) THEN None
             ELSE IF ~IsSequence(sequence) THEN None
             ELSE Some([tag |-> tag, port_id |-> port.val.port_id,
                        channel_id |-> channel.val.channel_id,
                        sequence |-> sequence.val.sequence])

parse_commitments(components) == parse_packet(components, "commitments", "Commitment")

parse_acks(components) == parse_packet(components, "acks", "Ack")

parse_receipts(components) == parse_packet(components, "receipts", "Receipt")

\* the two trailing literals taken for each other
parse_upgrades_swapped(components) ==
    IF Len(components) # 3 THEN None
    ELSE IF components[1] # UPGRADED_IBC_STATE THEN None
    ELSE LET last == components[Len(components)]
             height == ParseU64(components[2])
         IN  IF ~height.ok THEN None
             ELSE CASE last = UPGRADED_CLIENT_CONSENSUS_STATE ->
                           Some(UpgradeClientPath("UpgradedClientState", height.val))
                    [] last = UPGRADED_CLIENT_STATE ->
                           Some(UpgradeClientPath("UpgradedClientConsensusState",
                                                  height.val))
                    [] OTHER -> None

\* every last component but upgradedConsState taken for upgradedClient
parse_upgrades_default(components) ==
    IF Len(components) # 3 THEN None
    ELSE IF components[1] # UPGRADED_IBC_STATE THEN None
    ELSE LET last == components[Len(components)]
             height == ParseU64(components[2])
         IN  IF ~height.ok THEN None
             ELSE CASE last = UPGRADED_CLIENT_CONSENSUS_STATE ->
                           Some(UpgradeClientPath("UpgradedClientConsensusState",
                                                  height.val))
                    [] OTHER ->
                           Some(UpgradeClientPath("UpgradedClientState", height.val))

parse_upgrades(components) ==
    IF Len(components) # 3 THEN None
    ELSE IF components[1] # UPGRADED_IBC_STATE THEN None
    ELSE LET last == components[Len(components)]
             height == ParseU64(components[2])
         IN  IF ~height.ok THEN None
             ELSE CASE last = UPGRADED_CLIENT_STATE ->
                           Some(UpgradeClientPath("UpgradedClientState", height.val))
                    [] last = UPGRADED_CLIENT_CONSENSUS_STATE ->
                           Some(UpgradeClientPath("UpgradedClientConsensusState",
                                                  height.val))
                    [] OTHER -> None

\* the recognizers in the order from_str tries them
RecognizerOrder ==
    << "parse_next_sequence", "parse_client_paths", "parse_connections",
       "parse_ports", "parse_channel_ends", "parse_seqs", "parse_commitments",
       "parse_acks", "parse_receipts", "parse_upgrades" >>

Recognize(name, components) ==
    CASE name = "parse_next_sequence" -> parse_next_sequence(components)
      [] name = "parse_client_paths" -> parse_client_paths(components)
      [] name = "parse_connections" -> parse_connections(components)
      [] name = "parse_ports" -> parse_ports(components)
      [] name = "parse_channel_ends" -> parse_channel_ends(components)
      [] name = "parse_seqs" -> parse_seqs(components)
      [] name = "parse_commitments" -> parse_commitments(components)
      [] name = "parse_acks" -> parse_acks(components)
      [] name = "parse_receipts" -> parse_receipts(components)
      [] name = "parse_upgrades" -> parse_upgrades(components)

\* the chain of Option::or_else: the next recognizer runs only on None
RECURSIVE OrElseChain(_, _, _)
OrElseChain(order, i, components) ==
    IF i > Len(order) THEN None
    ELSE LET r == Recognize(order[i], components)
         IN  IF r.kind = "None" THEN OrElseChain(order, i + 1, components) ELSE r

\* the body of from_str with the recognizers tried in the given order
from_str_in_order(s, order) ==
    LET components == Split(s, "/")
        r == OrElseChain(order, 1, components)
    IN  IF r.kind = "Some" THEN Ok(r.val)
        ELSE IF r.kind = "Panic" THEN Panic
        ELSE ParseFailure(s)

\* <Path as FromStr>::from_str
from_str(s) == from_str_in_order(s, RecognizerOrder)

(***************************************************************************)
(* #[derive(PartialOrd, Ord)]: the variant's position in the enum first,   *)
(* then the payload's fields in declaration order.                         *)
(***************************************************************************)
IndexOf(seq, x) == CHOOSE i \in 1..Len(seq) : seq[i] = x

IntCmp(a, b) == IF a < b THEN "Less" ELSE IF a > b THEN "Greater" ELSE "Equal"

\* Ord of the identifier types: that of the wrapped string
IdentifierCmp(a, b) == StrCmp(a, b)

\* Ord of Sequence: that of the wrapped u64
SequenceCmp(a, b) == U64Cmp(a, b)

\* only the first field compared
Lex_firstOnly(cmps) == IF Len(cmps) = 0 THEN "Equal" ELSE cmps[1]

\* lexicographic combination: the first comparison that is not Equal
RECURSIVE Lex(_)
Lex(cmps) ==
    IF Len(cmps) = 0 THEN "Equal"
    ELSE IF cmps[1] # "Equal" THEN cmps[1]
    ELSE Lex(Tail(cmps))

\* Ord of two payloads of the same variant
PayloadCmp(p, q) ==
    CASE p.tag \in {"NextClientSequence", "NextConnectionSequence", "NextChannelSequence"} ->
             "Equal"
      [] p.tag \in {"ClientState", "ClientConnection"} ->
             IdentifierCmp(p.client_id, q.client_id)
      [] p.tag \in {"ClientConsensusState", "ClientUpdateTime", "ClientUpdateHeight"} ->
             Lex(<< IdentifierCmp(p.client_id, q.client_id),
                    U64Cmp(p.revision_number, q.revision_number),
                    U64Cmp(p.revision_height, q.revision_height) >>)
      [] p.tag = "Connection" -> IdentifierCmp(p.connection_id, q.connection_id)
      [] p.tag = "Ports" -> IdentifierCmp(p.port_id, q.port_id)
      [] p.tag \in {"ChannelEnd", "SeqSend", "SeqRecv", "SeqAck"} ->
             Lex(<< IdentifierCmp(p.port_id, q.port_id),
                    IdentifierCmp(p.channel_id, q.channel_id) >>)
      [] p.tag \in {"Commitment", "Ack", "Receipt"} ->
             Lex(<< IdentifierCmp(p.port_id, q.port_id),
                    IdentifierCmp(p.channel_id, q.channel_id),
                    SequenceCmp(p.sequence, q.sequence) >>)
      [] p.tag = "UpgradeClient" ->
             Lex(<< IntCmp(IndexOf(UpgradeVariants, p.variant),
                           IndexOf(UpgradeVariants, q.variant)),
                    U64Cmp(p.height, q.height) >>)

\* <Path as Ord>::cmp
PathCmp(p, q) ==
    LET i == IndexOf(PathVariants, p.tag)
        j == IndexOf(PathVariants, q.tag)
    IN  IF i # j THEN IntCmp(i, j) ELSE PayloadCmp(p, q)

(***************************************************************************)
(* The values the callers pass: Path values built from the constructors,   *)
(* and strings, well-formed and not.                                       *)
(***************************************************************************)
FirstN(pool, n) == {pool[i] : i \in 1..Min(n, Len(pool))}

ClientIdPool == <<"07-tendermint-0", "consensusStates", "clients", "9-a">>

ConnectionIdPool == <<"connection-0", "connections", "c", "ports">>

PortIdPool == <<"transfer", "ports", "channels", "p">>

ChannelIdPool == <<"channel-0", "channels", "sequences", "c">>

U64Pool == << <<0, 0, 0>>, <<0, 0, 15>>, <<0, 0, 31>>, U64Max, <<0, 1, 0>>, <<0, 0, 9>> >>

\* height segments that are not the rendering of two u64
OddHeightPool ==
    << "15", "15-31-7", "015-31", "+15-31", "15-", "a-1", "18446744073709551616-0",
       "-", "15-+0", "", "0-18446744073709551616", "1- 2", "15_31", "--" >>

\* numerals that are not the rendering of a u64
OddNumerals == {"", "+0", "007", "x", "-0", "18446744073709551616", "1 "}

\* segments no identifier parser accepts
BadIdentifiers == {"", "bad id", "a!"}

ClientIds == FirstN(ClientIdPool, NumIds)

ConnectionIds == FirstN(ConnectionIdPool, NumIds)

PortIds == FirstN(PortIdPool, NumIds)

ChannelIds == FirstN(ChannelIdPool, NumIds)

U64s == FirstN(U64Pool, NumHeights)

Paths ==
    {NextClientSequencePath, NextConnectionSequencePath, NextChannelSequencePath}
    \cup {ClientStatePath(c) : c \in ClientIds}
    \cup {ClientConnectionPath(c) : c \in ClientIds}
    \cup {ClientConsensusStatePath(c, n, h) : c \in ClientIds, n \in U64s, h \in U64s}
    \cup {ClientUpdateTimePath(c, n, h) : c \in ClientIds, n \in U64s, h \in U64s}
    \cup {ClientUpdateHeightPath(c, n, h) : c \in ClientIds, n \in U64s, h \in U64s}
    \cup {ConnectionPath(c) : c \in ConnectionIds}
    \cup {PortPath(c) : c \in PortIds}
    \cup {ChannelEndPath(a, b) : a \in PortIds, b \in ChannelIds}
    \cup {SeqSendPath(a, b) : a \in PortIds, b \in ChannelIds}
    \cup {SeqRecvPath(a, b) : a \in PortIds, b \in ChannelIds}
    \cup {SeqAckPath(a, b) : a \in PortIds, b \in ChannelIds}
    \cup {CommitmentPath(a, b, n) : a \in PortIds, b \in ChannelIds, n \in U64s}
    \cup {AckPath(a, b, n) : a \in PortIds, b \in ChannelIds, n \in U64s}
    \cup {ReceiptPath(a, b, n) : a \in PortIds, b \in ChannelIds, n \in U64s}
    \cup {UpgradeClientPath(v, h) : v \in {"UpgradedClientState",
                                           "UpgradedClientConsensusState"}, h \in U64s}

Numerals == {FormatU64(n) : n \in U64s}

HeightSegments ==
    {a \o "-" \o b : a \in Numerals, b \in Numerals} \cup FirstN(OddHeightPool, NumBadHeights)

FirstWords ==
    { "nextClientSequence", "nextConnectionSequence", "nextChannelSequence", "clients",
      "connections", "ports", "channelEnds", "nextSequenceSend", "nextSequenceRecv",
      "nextSequenceAck", "commitments", "acks", "receipts", UPGRADED_IBC_STATE,
      "channels", "sequences", "", "nextclientsequence", "client", "nextSequence" }

Segments1 == {<<w>> : w \in FirstWords}

Segments2 ==
    {<<f, x>> : f \in {"clients", "connections", "ports", "channels", "sequences",
                       UPGRADED_IBC_STATE, "port", ""},
                x \in ClientIds \cup ConnectionIds \cup PortIds \cup ChannelIds
                          \cup BadIdentifiers \cup {"0", "clientType"}}

Segments3 ==
    {<<f, x, t>> : f \in {"clients", UPGRADED_IBC_STATE, "ports", "upgradedIbcState"},
                   x \in ClientIds \cup Numerals \cup OddNumerals \cup {"bad id"},
                   t \in {"clientState", "connections", UPGRADED_CLIENT_STATE,
                          UPGRADED_CLIENT_CONSENSUS_STATE, "consensusStates", "",
                          "clientstate", "upgradedClientState"}}

ClientTails ==
    {<<>>, <<"processedTime">>, <<"processedHeight">>, <<"processedtime">>, <<"">>,
     <<"processedTime", "processedTime">>}

Segments4to6 ==
    {<<"clients", c, l, h>> \o t :
        c \in ClientIds \cup {"", "bad id"},
        l \in {"consensusStates", "consensusState", "clientState"},
        h \in HeightSegments, t \in ClientTails}

Segments5 ==
    {<<f, pl, a, cl, b>> :
        f \in {"channelEnds", "nextSequenceSend", "nextSequenceRecv", "nextSequenceAck",
               "commitments", "nextSequence", "ports", "clients"},
        pl \in {"ports", "channels", "port"}, a \in PortIds \cup {"", "bad id"},
        cl \in {"channels", "ports", "channel"}, b \in ChannelIds \cup {""}}

Segments7 ==
    {<<f, pl, a, cl, b, sl, n>> :
        f \in {"commitments", "acks", "receipts", "channelEnds", "ack"},
        pl \in {"ports", "channels"}, a \in PortIds \cup {""},
        cl \in {"channels", "sequences"}, b \in ChannelIds \cup {""},
        sl \in {"sequences", "channels", "sequence"}, n \in Numerals \cup OddNumerals}

\* every proper prefix of a well-formed path, and every well-formed path with
\* one more segment
Canonical == {Split(to_string(p), "/") : p \in Paths}

Truncated ==
    UNION {{SubSeq(c, 1, n) : n \in 1..(Len(c) - 1)} : c \in Canonical} \ Canonical

Extended ==
    {c \o <<x>> : c \in Canonical, x \in {"", "x", "processedTime", "processedHeight", "0"}}

\* every well-formed path after a leading '/'
LeadingEmpty == {<<"">> \o c : c \in Canonical}

\* packet paths with the ports, channels and sequences pairs in every order
SwappedPackets ==
    {<<f>> \o x \o y \o z :
        f \in {"commitments", "acks", "receipts"},
        x \in {<<"ports", "transfer">>, <<"channels", "channel-0">>, <<"sequences", "0">>},
        y \in {<<"ports", "transfer">>, <<"channels", "channel-0">>, <<"sequences", "0">>},
        z \in {<<"ports", "transfer">>, <<"channels", "channel-0">>, <<"sequences", "0">>}}

\* numerals around 2^64
EdgeNumerals ==
    { "0", "18446744073709551615", "18446744073709551616", "18446744073709551625",
      "36893488147419103231", "99999999999999999999", "184467440737095516150",
      "018446744073709551616", "+18446744073709551615" }

EdgeHeights ==
    {<<"clients", "07-tendermint-0", "consensusStates", a \o "-" \o b>> \o t :
        a \in EdgeNumerals, b \in EdgeNumerals, t \in {<<>>, <<"processedTime">>}}
    \cup {<<UPGRADED_IBC_STATE, a, t>> :
             a \in EdgeNumerals, t \in {UPGRADED_CLIENT_STATE,
                                        UPGRADED_CLIENT_CONSENSUS_STATE}}

SegmentLists ==
    Segments1 \cup Segments2 \cup Segments3 \cup Segments4to6 \cup Segments5
        \cup Segments7 \cup Truncated \cup Extended \cup LeadingEmpty
        \cup SwappedPackets \cup EdgeHeights

Inputs == {Join(c, "/") : c \in SegmentLists}

(***************************************************************************)
(* The callers.  calls is the sequence of the calls made so far, each with *)
(* its argument and its result.                                            *)
(***************************************************************************)
FromStrCall(s) == [op |-> "from_str", s |-> s, ret |-> from_str(s)]

ToStringCall(p) == [op |-> "to_string", p |-> p, out |-> to_string(p)]

IsProvableCall(p) == [op |-> "is_provable", p |-> p, flag |-> is_provable(p)]

CmpCall(p, q) == [op |-> "cmp", p |-> p, q |-> q, ord |-> PathCmp(p, q)]

NumCallers == 2

Callers == 1..NumCallers

\* a caller that is in neither from_str nor to_string
Idle == [pc |-> "idle"]

Init ==
    /\ calls = <<>>
    /\ callers = [t \in Callers |-> Idle]

\* Path::from_str(s) on a string of the caller's
Decode ==
    /\ calls = <<>>
    /\ \E s \in Inputs : calls' = <<FromStrCall(s)>>
    /\ UNCHANGED callers

\* p.to_string() on a path of the caller's; a caller may render two paths
Encode ==
    /\ \/ calls = <<>>
       \/ Len(calls) = 1 /\ calls[1].op = "to_string"
    /\ \E p \in Paths : calls' = Append(calls, ToStringCall(p))
    /\ UNCHANGED callers

\* Path::from_str on the string to_string returned
DecodeEncoded ==
    /\ Len(calls) = 1
    /\ calls[1].op = "to_string"
    /\ calls' = Append(calls, FromStrCall(calls[1].out))
    /\ UNCHANGED callers

\* to_string on the path from_str returned
EncodeDecoded ==
    /\ Len(calls) = 1
    /\ calls[1].op = "from_str"
    /\ calls[1].ret.kind = "Ok"
    /\ calls' = Append(calls, ToStringCall(calls[1].ret.val))
    /\ UNCHANGED callers

\* p.is_provable() on a path of the caller's
Provable ==
    /\ calls = <<>>
    /\ \E p \in Paths : calls' = <<IsProvableCall(p)>>
    /\ UNCHANGED callers

\* is_provable on the path from_str returned
ProvableDecoded ==
    /\ Len(calls) = 1
    /\ calls[1].op = "from_str"
    /\ calls[1].ret.kind = "Ok"
    /\ calls' = Append(calls, IsProvableCall(calls[1].ret.val))
    /\ UNCHANGED callers

\* p.cmp(&q) on the two paths the caller rendered
Cmp ==
    /\ Len(calls) = 2
    /\ calls[1].op = "to_string"
    /\ calls[2].op = "to_string"
    /\ calls' = Append(calls, CmpCall(calls[1].p, calls[2].p))
    /\ UNCHANGED callers

Next ==
    \/ Decode
    \/ Encode
    \/ DecodeEncoded
    \/ EncodeDecoded
    \/ Provable
    \/ ProvableDecoded
    \/ Cmp

Spec == Init /\ [][Next]_vars

\* ---- from_str with its or_else chain written in another order ----

NumOrders == 3

Reverse(seq) == [i \in 1..Len(seq) |-> seq[Len(seq) + 1 - i]]

Rotate(seq, n) == [i \in 1..Len(seq) |-> seq[((i - 1 + n) % Len(seq)) + 1]]

\* two positions of seq exchanged
Swap(seq, a, b) ==
    [i \in 1..Len(seq) |-> IF i = a THEN seq[b] ELSE IF i = b THEN seq[a] ELSE seq[i]]

OrderPool ==
    << Reverse(RecognizerOrder), Swap(RecognizerOrder, 5, 6), Rotate(RecognizerOrder, 3),
       Swap(RecognizerOrder, 2, 10), Rotate(Reverse(RecognizerOrder), 7),
       Swap(RecognizerOrder, 7, 9) >>

Orders == FirstN(OrderPool, NumOrders)

FromStrInOrderCall(s, order) ==
    [op |-> "from_str_in_order", s |-> s, order |-> order,
     ret |-> from_str_in_order(s, order)]

\* from_str(s) of a build whose or_else chain lists the recognizers in another order
DecodeReordered ==
    /\ calls = <<>>
    /\ \E s \in Inputs : \E order \in Orders : calls' = <<FromStrInOrderCall(s, order)>>
    /\ UNCHANGED callers

NextReordered == DecodeReordered

SpecReordered == Init /\ [][NextReordered]_vars

\* ---- from_str and to_string called by several callers at once ----

CallerStrings ==
    { "clients/07-tendermint-0/clientState", "upgradedIBCState/0/upgradedClient",
      "channels/channel-0", "clients" }

CallerPaths ==
    { ClientStatePath("07-tendermint-0"), CommitmentPath("transfer", "channel-0", <<0, 0, 15>>) }

\* the split of the caller running another from_str read in place of one's own
ComponentsOf_shared(t) ==
    LET u == CHOOSE u \in Callers : callers[u].pc = "or_else" IN callers[u].components

\* the local components of the from_str that caller t runs
ComponentsOf(t) == callers[t].components

\* the buffer of the caller running another to_string read in place of one's own
BufferOf_shared(t) ==
    LET u == CHOOSE u \in Callers : callers[u].pc = "fmt" IN callers[u].buf

\* the String that the to_string of caller t writes into
BufferOf(t) == callers[t].buf

\* caller t enters from_str(s): s is split into the local components
CallFromStr(t) ==
    /\ callers[t].pc = "idle"
    /\ \E s \in CallerStrings :
          callers' = [callers EXCEPT ![t] =
                        [pc |-> "or_else", s |-> s, components |-> Split(s, "/"), next |-> 1]]
    /\ UNCHANGED calls

\* the from_str of caller t runs the next recognizer of its or_else chain
TryRecognizer(t) ==
    /\ callers[t].pc = "or_else"
    /\ LET r == Recognize(RecognizerOrder[callers[t].next], ComponentsOf(t))
           s == callers[t].s
           done(ret) == [pc |-> "done", op |-> "from_str", s |-> s, ret |-> ret]
       IN  callers' = [callers EXCEPT ![t] =
                         IF r.kind = "Some" THEN done(Ok(r.val))
                         ELSE IF r.kind = "Panic" THEN done(Panic)
                         ELSE IF callers[t].next = Len(RecognizerOrder)
                              THEN done(ParseFailure(s))
                         ELSE [callers[t] EXCEPT !.next = @ + 1]]
    /\ UNCHANGED calls

\* caller t enters p.to_string(): an empty String to format into
CallToString(t) ==
    /\ callers[t].pc = "idle"
    /\ \E p \in CallerPaths :
          callers' = [callers EXCEPT ![t] =
                        [pc |-> "fmt", p |-> p, pieces |-> Split(to_string(p), "/"),
                         buf |-> "", next |-> 1]]
    /\ UNCHANGED calls

\* the to_string of caller t writes the next piece of the template, or returns
WritePiece(t) ==
    /\ callers[t].pc = "fmt"
    /\ LET c == callers[t]
           piece == IF c.next = 1 THEN c.pieces[1] ELSE "/" \o c.pieces[c.next]
       IN  callers' = [callers EXCEPT ![t] =
                         IF c.next > Len(c.pieces)
                         THEN [pc |-> "done", op |-> "to_string", p |-> c.p,
                               out |-> BufferOf(t)]
                         ELSE [c EXCEPT !.buf = BufferOf(t) \o piece, !.next = @ + 1]]
    /\ UNCHANGED calls

\* caller t drops the result and is free for its next call
Return(t) ==
    /\ callers[t].pc = "done"
    /\ callers' = [callers EXCEPT ![t] = Idle]
    /\ UNCHANGED calls

NextConcurrent ==
    \E t \in Callers :
        \/ CallFromStr(t)
        \/ TryRecognizer(t)
        \/ CallToString(t)
        \/ WritePiece(t)
        \/ Return(t)

SpecConcurrent == Init /\ [][NextConcurrent]_vars

(***************************************************************************)
(* Properties.  Decimal numerals are judged here on their text, without    *)
(* the limbs of the parser.                                                *)
(***************************************************************************)
IsDigits(s) == Len(s) > 0 /\ \A i \in 1..Len(s) : IsDigit(CharAt(s, i))

StripPlus(s) == IF Len(s) > 0 /\ CharAt(s, 1) = "+" THEN SubSeq(s, 2, Len(s)) ELSE s

RECURSIVE StripZeros(_)
StripZeros(s) ==
    IF Len(s) > 1 /\ CharAt(s, 1) = "0" THEN StripZeros(SubSeq(s, 2, Len(s))) ELSE s

U64MaxText == "18446744073709551615"

\* the numeral without sign and leading zeros
CanonicalNumeral(s) == StripZeros(StripPlus(s))

\* digits with an optional '+' whose value is at most 2^64 - 1
IsU64Numeral(s) ==
    /\ IsDigits(StripPlus(s))
    /\ \/ Len(CanonicalNumeral(s)) < Len(U64MaxText)
       \/ /\ Len(CanonicalNumeral(s)) = Len(U64MaxText)
          /\ StrCmp(CanonicalNumeral(s), U64MaxText) # "Greater"

\* seg is the decimal text of the u64 v
IsTextOf(seg, v) == IsDigits(seg) /\ StripZeros(seg) = seg /\ ParseU64(seg) = [ok |-> TRUE, val |-> v]

\* order of two canonical numerals by value
NumeralCmp(a, b) == IF Len(a) # Len(b) THEN IntCmp(Len(a), Len(b)) ELSE StrCmp(a, b)

DashesOf(seg) == {i \in 1..Len(seg) : CharAt(seg, i) = "-"}

BeforeDash(seg) == SubSeq(seg, 1, (CHOOSE i \in DashesOf(seg) : TRUE) - 1)

AfterDash(seg) == SubSeq(seg, (CHOOSE i \in DashesOf(seg) : TRUE) + 1, Len(seg))

\* exactly one dash, a u64 numeral on each side
IsTwoPartHeight(seg) ==
    /\ Cardinality(DashesOf(seg)) = 1
    /\ IsU64Numeral(BeforeDash(seg))
    /\ IsU64Numeral(AfterDash(seg))

CallsOf(op) == {k \in 1..Len(calls) : calls[k].op = op}

\* the call before this one was from_str and this call's path is its result
Chained(k, op1, op2) ==
    k = 2 /\ Len(calls) >= 2 /\ calls[1].op = op1 /\ calls[2].op = op2

\* C1: decoding the canonical string of a path returns that path: whenever
\* from_str is applied to the string to_string(p) returned, it returns Ok(p).
RoundTrip ==
    Chained(2, "to_string", "from_str") => calls[2].ret = Ok(calls[1].p)

RoundTripWitness ==
    /\ Len(calls) = 2
    /\ Chained(2, "to_string", "from_str")
    /\ calls[1].p = ClientUpdateTimePath("07-tendermint-0", <<0, 0, 15>>, U64Max)
    /\ calls[2].ret.kind = "Ok"

\* C2: a clients path whose number of segments is not 3, 4 or 5 is a parse
\* failure: from_str returns Err(ParseFailure) and does not abort.
ClientsWrongArityFails ==
    \A k \in CallsOf("from_str") :
        LET c == Split(calls[k].s, "/")
        IN  c[1] = "clients" /\ Len(c) \notin {3, 4, 5}
                => calls[k].ret = ParseFailure(calls[k].s)

\* C3: encoding what from_str accepted returns the input: whenever to_string
\* is applied to the path from_str(s) returned, it returns s.
DecodeThenEncode ==
    Chained(2, "from_str", "to_string") => calls[2].out = calls[1].s

\* C4: to_string is injective: two different paths have different strings.
Disjointness ==
    Len(calls) >= 2 /\ calls[1].op = "to_string" /\ calls[2].op = "to_string"
        /\ calls[1].p # calls[2].p
        => calls[1].out # calls[2].out

DisjointnessWitness ==
    /\ Len(calls) = 2
    /\ calls[1].op = "to_string"
    /\ calls[2].op = "to_string"
    /\ calls[1].p = SeqSendPath("transfer", "channel-0")
    /\ calls[2].p = SeqSendPath("transfer", "channels")
    /\ calls[1].out # calls[2].out

\* C5 as stated: the order of two paths is the order of their strings.
OrdIsStringOrder ==
    Len(calls) = 3 /\ calls[3].op = "cmp"
        => calls[3].ord = StrCmp(calls[1].out, calls[2].out)

SameHeightFamily(p, q) ==
    /\ p.tag = q.tag
    /\ p.tag \in {"ClientConsensusState", "ClientUpdateTime", "ClientUpdateHeight"}
    /\ p.client_id = q.client_id

\* C5 amended: the order of two paths is total and agrees with the strings on
\* equality only: cmp is Equal exactly when the two strings are equal; paths
\* of different variants are ordered by the position of the variant in the
\* enum; heights of the same client are ordered by value, the number first.
OrdIsDerivedOrder ==
    Len(calls) = 3 /\ calls[3].op = "cmp"
        => LET p == calls[3].p
               q == calls[3].q
               ord == calls[3].ord
           IN  /\ ord \in {"Less", "Equal", "Greater"}
               /\ (ord = "Equal") <=> (calls[1].out = calls[2].out)
               /\ p.tag # q.tag
                     => ord = IntCmp(IndexOf(PathVariants, p.tag),
                                     IndexOf(PathVariants, q.tag))
               /\ SameHeightFamily(p, q) /\ p.revision_number # q.revision_number
                     => ord = NumeralCmp(FormatU64(p.revision_number),
                                         FormatU64(q.revision_number))
               /\ SameHeightFamily(p, q) /\ p.revision_number = q.revision_number
                     /\ p.revision_height # q.revision_height
                     => ord = NumeralCmp(FormatU64(p.revision_height),
                                         FormatU64(q.revision_height))

OrdWitness ==
    /\ Len(calls) = 3
    /\ calls[3].op = "cmp"
    /\ calls[3].p = NextClientSequencePath
    /\ calls[3].q = NextChannelSequencePath
    /\ calls[3].ord = "Less"
    /\ StrCmp(calls[1].out, calls[2].out) = "Greater"

ProvableVariants ==
    { "NextClientSequence", "NextConnectionSequence", "NextChannelSequence",
      "ClientState", "ClientConsensusState", "ClientUpdateTime", "ClientUpdateHeight",
      "Connection", "ChannelEnd", "SeqSend", "SeqRecv", "SeqAck", "Commitment",
      "Ack", "Receipt", "UpgradeClient" }

\* the string has the shape ports/{port_id} or clients/{client_id}/connections
NonProvableShape(s) ==
    LET c == Split(s, "/")
    IN  \/ Len(c) = 2 /\ c[1] = "ports"
        \/ Len(c) = 3 /\ c[1] = "clients" /\ c[3] = "connections"

\* C6: is_provable is false for Ports and ClientConnection and true for the
\* other 16 variants whatever the payload; on the path decoded from an accepted
\* string it is false exactly when the string is ports/{port_id} or
\* clients/{client_id}/connections.
ProvabilityFlag ==
    \A k \in CallsOf("is_provable") :
        /\ calls[k].flag = FALSE <=> calls[k].p.tag \in {"Ports", "ClientConnection"}
        /\ calls[k].flag = TRUE <=> calls[k].p.tag \in ProvableVariants
        /\ Chained(k, "from_str", "is_provable")
              => (calls[k].flag = FALSE <=> NonProvableShape(calls[1].s))

ProvabilityFlagWitness ==
    /\ Len(calls) = 2
    /\ Chained(2, "from_str", "is_provable")
    /\ calls[1].s = "clients/07-tendermint-0/connections"
    /\ calls[2].p = ClientConnectionPath("07-tendermint-0")
    /\ calls[2].flag = FALSE

\* C7: every from_str that does not return a path returns the one error
\* ParseFailure, whose path field is the whole input.
FailureIsParseFailure ==
    \A k \in CallsOf("from_str") :
        calls[k].ret.kind # "Ok" => calls[k].ret = ParseFailure(calls[k].s)

\* the template of each variant: literal segments, and {slots} for the fields
Template(p) ==
    CASE p.tag = "NextClientSequence" -> <<"nextClientSequence">>
      [] p.tag = "NextConnectionSequence" -> <<"nextConnectionSequence">>
      [] p.tag = "NextChannelSequence" -> <<"nextChannelSequence">>
      [] p.tag = "ClientState" -> <<"clients", "{client_id}", "clientState">>
      [] p.tag = "ClientConsensusState" ->
             <<"clients", "{client_id}", "consensusStates", "{height}">>
      [] p.tag = "ClientUpdateTime" ->
             <<"clients", "{client_id}", "consensusStates", "{height}", "processedTime">>
      [] p.tag = "ClientUpdateHeight" ->
             <<"clients", "{client_id}", "consensusStates", "{height}", "processedHeight">>
      [] p.tag = "ClientConnection" -> <<"clients", "{client_id}", "connections">>
      [] p.tag = "Connection" -> <<"connections", "{connection_id}">>
      [] p.tag = "Ports" -> <<"ports", "{port_id}">>
      [] p.tag = "ChannelEnd" ->
             <<"channelEnds", "ports", "{port_id}", "channels", "{channel_id}">>
      [] p.tag = "SeqSend" ->
             <<"nextSequenceSend", "ports", "{port_id}", "channels", "{channel_id}">>
      [] p.tag = "SeqRecv" ->
             <<"nextSequenceRecv", "ports", "{port_id}", "channels", "{channel_id}">>
      [] p.tag = "SeqAck" ->
             <<"nextSequenceAck", "ports", "{port_id}", "channels", "{channel_id}">>
      [] p.tag = "Commitment" ->
             <<"commitments", "ports", "{port_id}", "channels", "{channel_id}",
               "sequences", "{sequence}">>
      [] p.tag = "Ack" ->
             <<"acks", "ports", "{port_id}", "channels", "{channel_id}",
               "sequences", "{sequence}">>
      [] p.tag = "Receipt" ->
             <<"receipts", "ports", "{port_id}", "channels", "{channel_id}",
               "sequences", "{sequence}">>
      [] p.tag = "UpgradeClient" /\ p.variant = "UpgradedClientState" ->
             <<"upgradedIBCState", "{h}", "upgradedClient">>
      [] p.tag = "UpgradeClient" /\ p.variant = "UpgradedClientConsensusState" ->
             <<"upgradedIBCState", "{h}", "upgradedConsState">>

\* segment seg fills the slot (or is the literal) of the template for path p
FillsSlot(seg, slot, p) ==
    CASE slot = "{client_id}" -> seg = p.client_id
      [] slot = "{connection_id}" -> seg = p.connection_id
      [] slot = "{port_id}" -> seg = p.port_id
      [] slot = "{channel_id}" -> seg = p.channel_id
      [] slot = "{sequence}" -> IsTextOf(seg, p.sequence)
      [] slot = "{h}" -> IsTextOf(seg, p.height)
      [] slot = "{height}" ->
             /\ Cardinality(DashesOf(seg)) = 1
             /\ IsTextOf(BeforeDash(seg), p.revision_number)
             /\ IsTextOf(AfterDash(seg), p.revision_height)
      [] OTHER -> seg = slot

\* C8: to_string returns, for every payload, the template of the variant
\* with the fields filled in: the number of segments and the literal segments
\* are those of the variant, numbers are rendered in decimal and a height as
\* number-height.
EncodeFollowsTemplate ==
    \A k \in CallsOf("to_string") :
        LET segs == Split(calls[k].out, "/")
            tmpl == Template(calls[k].p)
        IN  /\ Len(segs) = Len(tmpl)
            /\ \A i \in 1..Len(tmpl) : FillsSlot(segs[i], tmpl[i], calls[k].p)

EncodeFollowsTemplateWitness ==
    /\ Len(calls) = 1
    /\ calls[1].op = "to_string"
    /\ calls[1].p = ClientUpdateHeightPath("07-tendermint-0", <<0, 0, 15>>, <<0, 0, 31>>)
    /\ calls[1].out = "clients/07-tendermint-0/consensusStates/15-31/processedHeight"

\* a clients/{id}/consensusStates/{h} string, with or without one of the two
\* processed* suffixes
IsHeightInput(c) ==
    /\ Len(c) \in {4, 5}
    /\ c[1] = "clients"
    /\ ValidIdentifier(c[2])
    /\ c[3] = "consensusStates"
    /\ Len(c) = 5 => c[5] \in {"processedTime", "processedHeight"}

\* C9: in clients/{id}/consensusStates/{h}[/processedTime|/processedHeight]
\* the string is accepted exactly when h has one dash with a u64 numeral on
\* each side; the decoded revision_number is the first and revision_height the
\* second; any other h is a parse failure.
TwoPartHeight ==
    \A k \in CallsOf("from_str") :
        LET c == Split(calls[k].s, "/")
            ret == calls[k].ret
        IN  IsHeightInput(c) =>
              /\ ret.kind = "Ok" <=> IsTwoPartHeight(c[4])
              /\ ret.kind # "Ok" => ret = ParseFailure(calls[k].s)
              /\ ret.kind = "Ok" =>
                    /\ ret.val.tag = (IF Len(c) = 4 THEN "ClientConsensusState"
                                      ELSE IF c[5] = "processedTime" THEN "ClientUpdateTime"
                                      ELSE "ClientUpdateHeight")
                    /\ ret.val.client_id = c[2]
                    /\ FormatU64(ret.val.revision_number)
                           = CanonicalNumeral(BeforeDash(c[4]))
                    /\ FormatU64(ret.val.revision_height)
                           = CanonicalNumeral(AfterDash(c[4]))

TwoPartHeightWitness ==
    /\ Len(calls) = 1
    /\ calls[1].op = "from_str"
    /\ calls[1].s = "clients/07-tendermint-0/consensusStates/15-31"
    /\ calls[1].ret = Ok(ClientConsensusStatePath("07-tendermint-0", <<0, 0, 15>>, <<0, 0, 31>>))

\* C10: upgradedIBCState/{h}/{t} with h a u64 numeral decodes to
\* UpgradedClientState(h) exactly when t is upgradedClient, to
\* UpgradedClientConsensusState(h) exactly when t is upgradedConsState, and is
\* a parse failure for every other t.
UpgradePaths ==
    \A k \in CallsOf("from_str") :
        LET c == Split(calls[k].s, "/")
            ret == calls[k].ret
        IN  Len(c) = 3 /\ c[1] = "upgradedIBCState" /\ IsU64Numeral(c[2]) =>
              /\ c[3] = "upgradedClient" <=>
                    /\ ret.kind = "Ok"
                    /\ ret.val.tag = "UpgradeClient"
                    /\ ret.val.variant = "UpgradedClientState"
              /\ c[3] = "upgradedConsState" <=>
                    /\ ret.kind = "Ok"
                    /\ ret.val.tag = "UpgradeClient"
                    /\ ret.val.variant = "UpgradedClientConsensusState"
              /\ ret.kind = "Ok" => FormatU64(ret.val.height) = CanonicalNumeral(c[2])
              /\ c[3] \notin {"upgradedClient", "upgradedConsState"}
                    => ret = ParseFailure(calls[k].s)

UpgradePathsWitness ==
    /\ Len(calls) = 1
    /\ calls[1].op = "from_str"
    /\ calls[1].s = "upgradedIBCState/0/upgradedConsState"
    /\ calls[1].ret = Ok(UpgradeClientPath("UpgradedClientConsensusState", <<0, 0, 0>>))

\* C11: channels and sequences are no top-level families: from_str rejects
\* every two-segment input channels/{x} and sequences/{x} with ParseFailure,
\* also when parse_channels or parse_sequences accepts these two segments.
SubGrammarRejected ==
    \A k \in CallsOf("from_str") :
        LET c == Split(calls[k].s, "/")
        IN  Len(c) = 2 /\ c[1] \in {"channels", "sequences"} =>
                calls[k].ret = ParseFailure(calls[k].s)

SubGrammarRejectedWitness ==
    /\ Len(calls) = 1
    /\ calls[1].op = "from_str"
    /\ calls[1].s = "channels/channel-0"
    /\ parse_channels(Split(calls[1].s, "/")) = Some(SubPathChannels("channel-0"))
    /\ parse_sequences(Split("sequences/0", "/")).kind = "Some"
    /\ calls[1].ret = ParseFailure("channels/channel-0")

\* the positions in the fixed order of the recognizers that match c
MatchesOf(c) ==
    {i \in 1..Len(RecognizerOrder) : Recognize(RecognizerOrder[i], c).kind = "Some"}

\* C14: from_str(s) is Ok(x) exactly when some recognizer matches the segments
\* of s, x being the match of the first one in the fixed order, and it is
\* ParseFailure exactly when none of the ten recognizers matches.
FirstMatchWins ==
    \A k \in CallsOf("from_str") :
        LET c == Split(calls[k].s, "/")
            ret == calls[k].ret
            first == CHOOSE i \in MatchesOf(c) : \A j \in MatchesOf(c) : i <= j
        IN  /\ ret.kind = "Ok" <=> MatchesOf(c) # {}
            /\ MatchesOf(c) # {} => ret = Ok(Recognize(RecognizerOrder[first], c).val)
            /\ ret = ParseFailure(calls[k].s) <=> MatchesOf(c) = {}

\* the same with ParseFailure exactly when each recognizer returns None, which
\* leaves out the input on which parse_client_paths does not return
FirstMatchWinsWhenReturning ==
    \A k \in CallsOf("from_str") :
        LET c == Split(calls[k].s, "/")
            ret == calls[k].ret
            first == CHOOSE i \in MatchesOf(c) : \A j \in MatchesOf(c) : i <= j
        IN  /\ ret.kind = "Ok" <=> MatchesOf(c) # {}
            /\ MatchesOf(c) # {} => ret = Ok(Recognize(RecognizerOrder[first], c).val)
            /\ ret = ParseFailure(calls[k].s) <=>
                  \A i \in 1..Len(RecognizerOrder) :
                      Recognize(RecognizerOrder[i], c) = None

\* the input without its last segment
WithoutLast(c) == Join(SubSeq(c, 1, Len(c) - 1), "/")

\* a consensus state path followed by processedTime or processedHeight
IsProcessedSuffix(c) ==
    /\ Len(c) = 5
    /\ from_str(WithoutLast(c)).kind = "Ok"
    /\ from_str(WithoutLast(c)).val.tag = "ClientConsensusState"
    /\ c[5] \in {"processedTime", "processedHeight"}

\* C15: no input is decoded as a shorter path it starts with:
\* clients/{id}/consensusStates/{height}/{t} with t other than processedTime
\* and processedHeight is a parse failure, and so is every input that is a
\* decodable path followed by one more segment, but for a consensus state path
\* followed by processedTime or processedHeight.
NoPartialResult ==
    \A k \in CallsOf("from_str") :
        LET c == Split(calls[k].s, "/")
            ret == calls[k].ret
        IN  /\ /\ Len(c) = 5
               /\ c[1] = "clients"
               /\ c[3] = "consensusStates"
               /\ c[5] \notin {"processedTime", "processedHeight"}
               => ret = ParseFailure(calls[k].s)
            /\ /\ Len(c) >= 2
               /\ from_str(WithoutLast(c)).kind = "Ok"
               /\ ~IsProcessedSuffix(c)
               => ret = ParseFailure(calls[k].s)

NoPartialResultWitness ==
    /\ Len(calls) = 1
    /\ calls[1].op = "from_str"
    /\ calls[1].s = "clients/07-tendermint-0/consensusStates/15-31/processedtime"
    /\ from_str("clients/07-tendermint-0/consensusStates/15-31").kind = "Ok"
    /\ calls[1].ret = ParseFailure(calls[1].s)

\* C16: {f}/ports/{port_id}/channels/{channel_id} with valid ids decodes to
\* SeqSend, SeqRecv, SeqAck or ChannelEnd exactly when f is nextSequenceSend,
\* nextSequenceRecv, nextSequenceAck or channelEnds, with the third and fifth
\* segments as port_id and channel_id, and is a parse failure for every other f.
SeqDisambiguation ==
    \A k \in CallsOf("from_str") :
        LET c == Split(calls[k].s, "/")
            ret == calls[k].ret
        IN  /\ Len(c) = 5
            /\ c[2] = "ports"
            /\ c[4] = "channels"
            /\ ValidIdentifier(c[3])
            /\ ValidIdentifier(c[5])
            => /\ c[1] = "nextSequenceSend" <=> ret = Ok(SeqSendPath(c[3], c[5]))
               /\ c[1] = "nextSequenceRecv" <=> ret = Ok(SeqRecvPath(c[3], c[5]))
               /\ c[1] = "nextSequenceAck" <=> ret = Ok(SeqAckPath(c[3], c[5]))
               /\ c[1] = "channelEnds" <=> ret = Ok(ChannelEndPath(c[3], c[5]))
               /\ c[1] \notin {"nextSequenceSend", "nextSequenceRecv", "nextSequenceAck",
                               "channelEnds"} <=> ret = ParseFailure(calls[k].s)

SeqDisambiguationWitness ==
    /\ Len(calls) = 1
    /\ calls[1].op = "from_str"
    /\ calls[1].s = "nextSequenceAck/ports/transfer/channels/channel-0"
    /\ calls[1].ret = Ok(SeqAckPath("transfer", "channel-0"))

\* the four literals of a packet path at their positions
PacketLiterals(c) ==
    /\ c[1] \in {"commitments", "acks", "receipts"}
    /\ c[2] = "ports"
    /\ c[4] = "channels"
    /\ c[6] = "sequences"

\* the packet path the first segment f names
PacketOf(f, port_id, channel_id, sequence) ==
    CASE f = "commitments" -> CommitmentPath(port_id, channel_id, sequence)
      [] f = "acks" -> AckPath(port_id, channel_id, sequence)
      [] f = "receipts" -> ReceiptPath(port_id, channel_id, sequence)

\* C17: a seven-segment input decodes only if its first segment is
\* commitments, acks or receipts, its second is ports, its fourth is channels
\* and its sixth is sequences, and then to the Commitment, Ack or Receipt the
\* first segment names; with any of the four literals changed, or the
\* ports, channels and sequences pairs in another order, it is a parse failure.
PacketLiteralsFixed ==
    \A k \in CallsOf("from_str") :
        LET c == Split(calls[k].s, "/")
            ret == calls[k].ret
        IN  Len(c) = 7 =>
              /\ ret.kind = "Ok" => PacketLiterals(c)
              /\ ~PacketLiterals(c) => ret = ParseFailure(calls[k].s)
              /\ /\ PacketLiterals(c)
                 /\ ValidIdentifier(c[3])
                 /\ ValidIdentifier(c[5])
                 /\ IsU64Numeral(c[7])
                 => ret = Ok(PacketOf(c[1], c[3], c[5], ParseU64(c[7]).val))

PacketLiteralsFixedWitness ==
    /\ Len(calls) = 1
    /\ calls[1].op = "from_str"
    /\ calls[1].s = "acks/channels/channel-0/ports/transfer/sequences/0"
    /\ from_str("acks/ports/transfer/channels/channel-0/sequences/0")
          = Ok(AckPath("transfer", "channel-0", <<0, 0, 0>>))
    /\ calls[1].ret = ParseFailure(calls[1].s)

\* a decimal numeral whose value exceeds 2^64 - 1
Overflows(x) == IsDigits(StripPlus(x)) /\ ~IsU64Numeral(x)

\* the texts of 0 and of 2^64 - 1, and the values they stand for
EdgeTexts == {"0", U64MaxText}

EdgeValue(x) == IF x = "0" THEN <<0, 0, 0>> ELSE <<184467, 4407370, 9551615>>

\* a height path whose revision number and revision height are both edge texts
IsEdgeHeightInput(c) ==
    /\ IsHeightInput(c)
    /\ Cardinality(DashesOf(c[4])) = 1
    /\ BeforeDash(c[4]) \in EdgeTexts
    /\ AfterDash(c[4]) \in EdgeTexts

\* an upgrade path whose height is an edge text
IsEdgeUpgradeInput(c) ==
    /\ Len(c) = 3
    /\ c[1] = "upgradedIBCState"
    /\ c[2] \in EdgeTexts
    /\ c[3] \in {"upgradedClient", "upgradedConsState"}

\* C18: a revision number, revision height or upgrade height whose decimal
\* value exceeds 2^64 - 1 makes from_str fail, while the texts of 0 and of
\* 2^64 - 1 decode to these values and encoding the result returns the input.
HeightsAreU64 ==
    /\ \A k \in CallsOf("from_str") :
          LET c == Split(calls[k].s, "/")
              ret == calls[k].ret
          IN  /\ /\ Len(c) \in {4, 5}
                 /\ c[1] = "clients"
                 /\ c[3] = "consensusStates"
                 /\ Cardinality(DashesOf(c[4])) = 1
                 /\ Overflows(BeforeDash(c[4])) \/ Overflows(AfterDash(c[4]))
                 => ret = ParseFailure(calls[k].s)
              /\ /\ Len(c) = 3
                 /\ c[1] = "upgradedIBCState"
                 /\ Overflows(c[2])
                 => ret = ParseFailure(calls[k].s)
              /\ IsEdgeHeightInput(c) =>
                    /\ ret.kind = "Ok"
                    /\ ret.val.revision_number = EdgeValue(BeforeDash(c[4]))
                    /\ ret.val.revision_height = EdgeValue(AfterDash(c[4]))
              /\ IsEdgeUpgradeInput(c) =>
                    /\ ret.kind = "Ok"
                    /\ ret.val.height = EdgeValue(c[2])
    /\ Chained(2, "from_str", "to_string") =>
          LET c == Split(calls[1].s, "/")
          IN  IsEdgeHeightInput(c) \/ IsEdgeUpgradeInput(c) => calls[2].out = calls[1].s

HeightsAreU64Witness ==
    /\ Len(calls) = 1
    /\ calls[1].op = "from_str"
    /\ calls[1].s = "clients/07-tendermint-0/consensusStates/0-18446744073709551616"
    /\ from_str("clients/07-tendermint-0/consensusStates/0-18446744073709551615")
          = Ok(ClientConsensusStatePath("07-tendermint-0", U64Zero, U64Max))
    /\ calls[1].ret = ParseFailure(calls[1].s)

\* C19: an input whose first or last segment is empty (the empty string, a
\* leading '/', a trailing '/') makes from_str return ParseFailure.
EmptyEdgeSegmentRejected ==
    \A k \in CallsOf("from_str") :
        LET c == Split(calls[k].s, "/")
        IN  c[1] = "" \/ c[Len(c)] = "" => calls[k].ret = ParseFailure(calls[k].s)

EmptyEdgeSegmentRejectedWitness ==
    /\ Len(calls) = 1
    /\ calls[1].op = "from_str"
    /\ calls[1].s = "ports/transfer/"
    /\ from_str("ports/transfer") = Ok(PortPath("transfer"))
    /\ calls[1].ret = ParseFailure("ports/transfer/")

\* order lists each of the ten recognizers once
IsPermutation(order) ==
    /\ Len(order) = Len(RecognizerOrder)
    /\ \A i \in 1..Len(RecognizerOrder) : \E j \in 1..Len(order) : order[j] = RecognizerOrder[i]

\* C12: on every segment sequence at most one of the ten recognizers matches,
\* and from_str with the recognizers tried in another order returns what
\* from_str returns.
RecognizersExclusive ==
    \A k \in CallsOf("from_str_in_order") :
        /\ IsPermutation(calls[k].order)
        /\ Cardinality(MatchesOf(Split(calls[k].s, "/"))) <= 1
        /\ calls[k].ret = from_str(calls[k].s)

RecognizersExclusiveWitness ==
    /\ Len(calls) = 1
    /\ calls[1].op = "from_str_in_order"
    /\ calls[1].s = "nextSequenceSend/ports/transfer/channels/channel-0"
    /\ calls[1].order = Reverse(RecognizerOrder)
    /\ calls[1].order # RecognizerOrder
    /\ calls[1].ret = Ok(SeqSendPath("transfer", "channel-0"))

\* the callers whose call has returned
Returned(op) == {t \in Callers : callers[t].pc = "done" /\ callers[t].op = op}

\* C13: with several callers in from_str and to_string at once, in any
\* interleaving of their steps, every call returns what the same call returns
\* when it runs alone on the same argument, and calls on the same argument
\* return the same result.
CallsArePure ==
    /\ \A t \in Returned("from_str") : callers[t].ret = from_str(callers[t].s)
    /\ \A t \in Returned("to_string") : callers[t].out = to_string(callers[t].p)
    /\ \A t, u \in Returned("from_str") :
          callers[t].s = callers[u].s => callers[t].ret = callers[u].ret
    /\ \A t, u \in Returned("to_string") :
          callers[t].p = callers[u].p => callers[t].out = callers[u].out

CallsArePureWitness ==
    /\ callers[1].pc = "done"
    /\ callers[1].op = "from_str"
    /\ callers[1].s = "upgradedIBCState/0/upgradedClient"
    /\ callers[1].ret = Ok(UpgradeClientPath("UpgradedClientState", <<0, 0, 0>>))
    /\ callers[2].pc = "or_else"
    /\ callers[2].s = "channels/channel-0"
    /\ callers[2].next = 7

====
